---- MODULE Spec2Model ----
(***************************************************************************)
(* Session-scoped streaming chat client.                                   *)
(*                                                                         *)
(*   services/api.ts   (src/unnamed/part_008, first module of the file)    *)
(*   pages/Query.tsx   (src/unnamed/part_005)                              *)
(*   pages/Upload.tsx  (src/unnamed/part_007)                              *)
(*   FileUpload.tsx    (src/unnamed/part_003)                              *)
(*   ChatInterface.tsx, DocumentPreview.tsx (src/frontend/src/components)  *)
(*                                                                         *)
(* Text is modelled as a sequence of lexical units (tokens).  The wire     *)
(* text of the chat stream keeps the units a network cut can separate:     *)
(* the two halves of the "data: " prefix, the braces, keys and values of   *)
(* the JSON payload, and the newline.  Message contents are sequences of   *)
(* units too, so that concatenation is sequence concatenation.             *)
(***************************************************************************)
EXTENDS Integers, Sequences, FiniteSets, TLC

\* ---------------------------------------------------------------- bounds
MaxTurns    == 2    \* chat turns started on one Query page instance
MaxFrames   == 2    \* frames the server writes into one chat response
MaxSessions == 2    \* session ids the server ever hands out
MaxUploads  == 2    \* calls of FileUpload.handleFiles
MaxDeletes  == 1    \* calls of FileUpload.removeFile
MaxNav      == 2    \* page changes

\* ---------------------------------------------------------------- values
None == <<>>                         \* null: no session id, no record
Undefined == "undefined"             \* a string that is absent
Sid(n) == <<"session", n>>           \* the n-th id handed out by the server
DocId(n) == <<"doc", n>>

NL == "\n"
Letters == {"a", "b"}                \* content strings of the frames
ErrMsg == "model unavailable"        \* the message of an error frame
TRUEtok == "true"

\* user-visible literal texts of the code
NoResponseText == <<"No response received">>
ApologyText(msg) == <<"I apologize, but I encountered an error: ", msg, ". Please try again.">>
FailedToGetResponse == "Failed to get response"
FailedToCreateSession == "Failed to create session"
ChatRequestFailed == "Chat request failed"
SessionNotFound == "Session not found"
NetworkError == "network error"

\* ---------------------------------------------------------------- frames
ContentFrame(v) == [kind |-> "content", v |-> v]
ErrorFrame == [kind |-> "error", v |-> ErrMsg]
DoneFrame == [kind |-> "done", v |-> TRUEtok]
ContentDoneFrame(v) == [kind |-> "contentdone", v |-> v]
MalformedFrame == [kind |-> "malformed", v |-> "a"]

\* the frames of the protocol: {content}, {error}, {done: true}
WellFormedFrames == {ContentFrame(v) : v \in Letters} \cup {ErrorFrame, DoneFrame}
Frames == WellFormedFrames \cup {ContentDoneFrame("a"), MalformedFrame}

\* The server's encoding of a frame: one line "data: <json>\n".
Encode(f) ==
  CASE f.kind = "content"     -> <<"data:", " ", "{", "content", f.v, "}", NL>>
    [] f.kind = "error"       -> <<"data:", " ", "{", "error", f.v, "}", NL>>
    [] f.kind = "done"        -> <<"data:", " ", "{", "done", TRUEtok, "}", NL>>
    [] f.kind = "contentdone" -> <<"data:", " ", "{", "content", f.v, "done", TRUEtok, "}", NL>>
    [] OTHER                  -> <<"data:", " ", "{", "content", NL>>

RECURSIVE EncodeAll(_)
EncodeAll(fs) == IF fs = <<>> THEN <<>> ELSE Encode(Head(fs)) \o EncodeAll(Tail(fs))

RECURSIVE Flatten(_)
Flatten(ss) == IF ss = <<>> THEN <<>> ELSE Head(ss) \o Flatten(Tail(ss))

\* ------------------------------------------------- the stream read loop
\* chunk.split('\n')
RECURSIVE Split(_, _, _)
Split(s, cur, acc) ==
  IF s = <<>> THEN Append(acc, cur)
  ELSE IF Head(s) = NL THEN Split(Tail(s), <<>>, Append(acc, cur))
  ELSE Split(Tail(s), Append(cur, Head(s)), acc)
SplitLines(chunk) == Split(chunk, <<>>, <<>>)

\* line.startsWith('data: ')
StartsWithData(line) == Len(line) >= 2 /\ line[1] = "data:" /\ line[2] = " "

\* JSON.parse(line.slice(6)): an object when the text is "{" key value ... "}",
\* a SyntaxError (ParseFail) otherwise.
JsonKeys == {"content", "error", "done"}
JsonValues == Letters \cup {ErrMsg, TRUEtok}
EmptyObject == [content |-> Undefined, error |-> Undefined, done |-> Undefined]
ParseFail == [syntaxError |-> TRUE]
RECURSIVE ParseMembers(_, _)
ParseMembers(p, obj) ==
  IF p = <<>> THEN ParseFail
  ELSE IF Head(p) = "}" THEN (IF Len(p) = 1 THEN obj ELSE ParseFail)
  ELSE IF Len(p) >= 2 /\ Head(p) \in JsonKeys /\ p[2] \in JsonValues
       THEN ParseMembers(SubSeq(p, 3, Len(p)), [obj EXCEPT ![Head(p)] = p[2]])
       ELSE ParseFail
JSONparse(p) ==
  IF p # <<>> /\ Head(p) = "{" THEN ParseMembers(Tail(p), EmptyObject) ELSE ParseFail

\* One line of the chunk, as the body of "for (const line of lines)" handles it.
\* st: full (fullResponse), out (the strings passed to onChunk, in order),
\* ret (the function returned from inside the loop); err and late only observe:
\* the message of an error frame met so far, and whether onChunk was called
\* after one.
HandleLine(st, line) ==
  IF ~StartsWithData(line) THEN st
  ELSE LET data == JSONparse(SubSeq(line, 3, Len(line))) IN
       IF "syntaxError" \in DOMAIN data THEN st      \* catch (parseError): warn, go on
       ELSE IF data.error # Undefined
            \* throw new Error(data.error) is thrown inside the same try, so the
            \* catch (parseError) just above swallows it and the loop goes on
            THEN [st EXCEPT !.err = data.error]
       ELSE LET s1 == IF data.content # Undefined
                      THEN [st EXCEPT !.full = @ \o <<data.content>>,
                                      !.out = Append(@, <<data.content>>),
                                      !.late = @ \/ (st.err # Undefined)]
                      ELSE st
            IN IF data.done # Undefined THEN [s1 EXCEPT !.ret = TRUE] ELSE s1

\* A loop over the lines that does not return on the done flag.
RECURSIVE ProcessLines_NoReturn(_, _)
ProcessLines_NoReturn(st, lines) ==
  IF lines = <<>> THEN st
  ELSE ProcessLines_NoReturn(HandleLine(st, Head(lines)), Tail(lines))

RECURSIVE ProcessLines(_, _)
ProcessLines(st, lines) ==
  IF lines = <<>> \/ st.ret THEN st
  ELSE ProcessLines(HandleLine(st, Head(lines)), Tail(lines))

\* One iteration of the while loop for a chunk the reader returned.
ProcessChunk(st, chunk) == ProcessLines([st EXCEPT !.out = <<>>], SplitLines(chunk))

InitDecode == [full |-> <<>>, out |-> <<>>, ret |-> FALSE, err |-> Undefined, late |-> FALSE]

\* The whole loop over a sequence of chunks followed by the end of the transport:
\* [full, deltas] as sendChatMessage produces them.
RECURSIVE DecodeChunks(_, _, _)
DecodeChunks(st, deltas, chunks) ==
  IF chunks = <<>> \/ st.ret THEN [full |-> st.full, deltas |-> deltas]
  ELSE LET s1 == ProcessChunk(st, Head(chunks))
       IN DecodeChunks(s1, deltas \o s1.out, Tail(chunks))

\* Every frame whole in a chunk of its own.
RECURSIVE WholeChunks(_)
WholeChunks(fs) == IF fs = <<>> THEN <<>> ELSE <<Encode(Head(fs))>> \o WholeChunks(Tail(fs))
Reference(fs) == DecodeChunks(InitDecode, <<>>, WholeChunks(fs))

\* inputMessage.trim()
RECURSIVE TrimLeft(_)
TrimLeft(s) == IF s # <<>> /\ Head(s) = " " THEN TrimLeft(Tail(s)) ELSE s
RECURSIVE TrimRight(_)
TrimRight(s) == IF s # <<>> /\ s[Len(s)] = " " THEN TrimRight(SubSeq(s, 1, Len(s) - 1)) ELSE s
Trim(s) == TrimRight(TrimLeft(s))
Inputs == {<<" ">>, <<"q">>, <<"q", " ">>}   \* what the user may have typed

\* ------------------------------------------------------------ the state
VARIABLES
  currentSessionId,   \* api.ts: let currentSessionId
  lsSessionId,        \* localStorage item 'sessionId'
  serverSessions,     \* the session ids the server knows (environment)
  serverDocs,         \* the documents the server holds, each with its session
  nextSid,            \* session ids handed out so far
  nextDoc,            \* document ids handed out so far
  page,               \* the mounted page: "upload" or "query"
  navs,               \* page changes so far
  uploadedFiles,      \* Upload page: useState uploadedFiles
  uploads,            \* the calls of FileUpload.handleFiles, by number
  nextUpload,         \* calls of handleFiles so far
  uploadedDocuments,  \* Query page: useState uploadedDocuments
  chatMessages,       \* Query page: useState chatMessages
  isLoading,          \* Query page: useState isLoading
  turns,              \* the calls of Query.handleSendMessage, by number
  nextTurn,           \* calls of handleSendMessage so far
  lists,              \* listDocuments requests in flight
  clears,             \* clearAllDocuments requests in flight
  deletes,            \* deleteDocument requests in flight
  nDeletes,           \* calls of removeFile so far
  obs                 \* observers: what was sent and received last

sessionVars == <<currentSessionId, lsSessionId>>
serverVars == <<serverSessions, serverDocs, nextSid, nextDoc>>
pageVars == <<page, navs>>
uploadVars == <<uploadedFiles, uploads, nextUpload>>
queryVars == <<uploadedDocuments, chatMessages, isLoading>>
turnVars == <<turns, nextTurn>>
opVars == <<lists, clears, deletes, nDeletes>>
vars == <<sessionVars, serverVars, pageVars, uploadVars, queryVars, turnVars, opVars, obs>>

\* getSessionId(): the value it returns; it also stores it in currentSessionId
HeldSid == IF currentSessionId = None THEN lsSessionId ELSE currentSessionId

\* The two copies of the session id as one value S = [cur, ls], so that the
\* steps of a handler can be applied one after the other.
Store == [cur |-> currentSessionId, ls |-> lsSessionId]
SetStore(S) == currentSessionId' = S.cur /\ lsSessionId' = S.ls
\* getSessionId(): returns .cur of the result
getSessionId(S) == [cur |-> IF S.cur = None THEN S.ls ELSE S.cur, ls |-> S.ls]
setSessionId_MemoryOnly(S, sid) == [S EXCEPT !.cur = sid]

setSessionId(S, sid) == [cur |-> sid, ls |-> sid]
\* currentSessionId = null; localStorage.removeItem('sessionId')
removeSessionId(S) == [cur |-> None, ls |-> None]
\* api.interceptors.response, success: hdr is response.headers['x-session-id']
ResponseInterceptor(S, hdr) ==
  IF hdr = None THEN S
  ELSE IF hdr # getSessionId(S).cur THEN setSessionId(S, hdr) ELSE getSessionId(S)
\* api.interceptors.response, error: status 404 and a detail naming the Session
SessionError(status, detail) == status = 404 /\ detail = "Session not found"
ErrorInterceptor(S, status, detail) ==
  IF SessionError(status, detail) THEN removeSessionId(S) ELSE S

\* A call of handleSendMessage together with the sendChatMessage call it makes.
\*   pc: "none" not called, "create" awaiting POST /session, "fetch" awaiting
\*       the response of POST /chat, "read" in the read loop, "done" returned
\*   wire: the text of the response body the reader has not returned yet
\*   mounted: the Query page that made the call is still mounted
\*   sent, received, errSeen, late, result, outcome only observe the turn, and
\*   so do regenerated (the call came from handleRegenerateResponse) and
\*   lenBefore (the length of the history when the handler was called) and
\*   after (how the turn before this one ended)
NoTurn ==
  [pc |-> "none", message |-> <<>>, history |-> <<>>, documents |-> <<>>,
   sessionHeader |-> None, accumulatedResponse |-> <<>>, hasStartedStreaming |-> FALSE,
   fullResponse |-> <<>>, wire |-> <<>>, mounted |-> TRUE,
   sent |-> <<>>, received |-> <<>>, errSeen |-> Undefined, late |-> FALSE,
   result |-> None, outcome |-> "none", regenerated |-> FALSE, lenBefore |-> 0,
   after |-> "none"]
TurnIds == 1..MaxTurns
Active(t) == turns[t].pc \in {"create", "fetch", "read"}

UserId(t) == <<"user", t>>
AssistantId(t) == <<"assistant", t>>

MapMessage_EveryAssistant(msgs, id, content, streaming) ==
  [i \in 1..Len(msgs) |->
     IF msgs[i].type = "assistant"
     THEN [msgs[i] EXCEPT !.content = content, !.isStreaming = streaming]
     ELSE msgs[i]]

\* prev.map(msg => msg.id === id ? {...msg, content, isStreaming} : msg)
MapMessage(msgs, id, content, streaming) ==
  [i \in 1..Len(msgs) |->
     IF msgs[i].id = id THEN [msgs[i] EXCEPT !.content = content, !.isStreaming = streaming]
     ELSE msgs[i]]

\* history.map(msg => ({role: msg.type === 'user' ? 'user' : 'assistant', content}))
RoleMap(msgs) ==
  [i \in 1..Len(msgs) |->
     [role |-> IF msgs[i].type = "user" THEN "user" ELSE "assistant",
      content |-> msgs[i].content]]

\* The observers of finished turns are dropped when a new turn starts.
Forget(ts) == [u \in TurnIds |-> IF ts[u].pc = "done" THEN [NoTurn EXCEPT !.pc = "done"] ELSE ts[u]]

\* A request leaves the client: what it was and the X-Session-ID it carried.
\* wanted is the id the last chat response announced, when that response came
\* after an upload response announcing another one and nothing else touched
\* the session since.
Sent(kind, sid) == [obs EXCEPT !.lastReq = [kind |-> kind, sid |-> sid],
                               !.wanted = obs.expect, !.expect = None,
                               !.expired = FALSE]

\* The Query page shows the chat only when it has documents.
ChatVisible == page = "query" /\ uploadedDocuments # <<>>

\* handleSendMessage(message) up to its first await, sendChatMessage included:
\* closure is the chatMessages of the render the callback was created in, base
\* the chatMessages state the functional updates apply to; regenerated is
\* recorded only.
handleSendMessage(message, closure, base, regenerated) ==
  LET t == nextTurn + 1
      held == HeldSid
      userMessage == [id |-> UserId(t), type |-> "user", content |-> message,
                      isStreaming |-> FALSE]
      assistantMessage == [id |-> AssistantId(t), type |-> "assistant", content |-> <<>>,
                           isStreaming |-> TRUE]
  IN /\ nextTurn < MaxTurns
     /\ nextTurn' = t
     /\ chatMessages' = base \o <<userMessage, assistantMessage>>
     /\ isLoading' = TRUE
     /\ currentSessionId' = held
     /\ turns' = [Forget(turns) EXCEPT ![t] =
                    [NoTurn EXCEPT !.pc = IF held = None THEN "create" ELSE "fetch",
                                   !.message = message,
                                   !.history = RoleMap(closure),
                                   !.documents = uploadedDocuments,
                                   !.sessionHeader = held,
                                   !.regenerated = regenerated,
                                   !.lenBefore = Len(closure),
                                   !.after = IF nextTurn = 0 THEN "none"
                                             ELSE turns[nextTurn].outcome]]
     /\ obs' = Sent(IF held = None THEN "createSession" ELSE "chat", held)
     /\ UNCHANGED <<lsSessionId, uploadedDocuments, serverVars, pageVars, uploadVars, opVars>>

\* ChatInterface.handleSubmit: if (inputMessage.trim() && !isLoading)
SubmitAccepted(input) == Trim(input) # <<>> /\ ~isLoading
HandleSubmit(input) ==
  /\ ChatVisible
  /\ SubmitAccepted(input)
  /\ handleSendMessage(Trim(input), chatMessages, chatMessages, FALSE)

\* The regenerate button: disabled={messages.length === 0 || isLoading}
RegenerateEnabled == chatMessages # <<>> /\ ~isLoading
LastUserIndex(msgs) ==
  LET us == {i \in 1..Len(msgs) : msgs[i].type = "user"}
  IN IF us = {} THEN 0 ELSE CHOOSE i \in us : \A j \in us : j <= i
HandleRegenerateResponse ==
  /\ ChatVisible
  /\ RegenerateEnabled
  /\ LastUserIndex(chatMessages) # 0
  /\ LET k == LastUserIndex(chatMessages)
     IN handleSendMessage(chatMessages[k].content, chatMessages, SubSeq(chatMessages, 1, k), TRUE)

\* A clear that keeps the first message of the history.
HandleClearChat_KeepsFirst ==
  /\ ChatVisible
  /\ chatMessages # <<>>
  /\ chatMessages' = <<Head(chatMessages)>>
  /\ UNCHANGED <<uploadedDocuments, isLoading, sessionVars, serverVars, pageVars,
                 uploadVars, turnVars, opVars, obs>>

\* The clear button: disabled={messages.length === 0}
HandleClearChat ==
  /\ ChatVisible
  /\ chatMessages # <<>>
  /\ chatMessages' = <<>>
  /\ UNCHANGED <<uploadedDocuments, isLoading, sessionVars, serverVars, pageVars,
                 uploadVars, turnVars, opVars, obs>>

\* ------------------------------------------------ the end of a chat turn
Finished(tr, result, outcome) ==
  [NoTurn EXCEPT !.pc = "done", !.sent = tr.sent, !.received = tr.received,
                 !.errSeen = tr.errSeen, !.late = tr.late,
                 !.regenerated = tr.regenerated, !.lenBefore = tr.lenBefore,
                 !.after = tr.after,
                 !.result = result, !.outcome = outcome]

\* The completion without its fallbacks: the accumulated text as it is.
FinalContent_NoFallback(accumulated, response) == accumulated
\* content: accumulatedResponse || result.data?.response || 'No response received'
FinalContent(accumulated, response) ==
  IF accumulated # <<>> THEN accumulated
  ELSE IF response # <<>> THEN response
  ELSE NoResponseText

\* A completion without the finally block: isLoading stays as it is.
CompleteTurn_KeepsLoading(t, tr, msgs) ==
  /\ chatMessages' = MapMessage(msgs, AssistantId(t),
                                FinalContent(tr.accumulatedResponse, tr.fullResponse), FALSE)
  /\ isLoading' = isLoading
  /\ turns' = [turns EXCEPT ![t] =
                 Finished(tr, [success |-> TRUE, response |-> tr.fullResponse], "completed")]

\* sendChatMessage returned {success: true, data: {response}}: the rest of the
\* try block of handleSendMessage and its finally.
CompleteTurn(t, tr, msgs) ==
  /\ chatMessages' = MapMessage(msgs, AssistantId(t),
                                FinalContent(tr.accumulatedResponse, tr.fullResponse), FALSE)
  /\ isLoading' = (IF tr.mounted THEN FALSE ELSE isLoading)
  /\ turns' = [turns EXCEPT ![t] =
                 Finished(tr, [success |-> TRUE, response |-> tr.fullResponse], "completed")]

\* A catch block that only logs the failure.
FailTurn_OnlyLogged(t, error) ==
  /\ chatMessages' = chatMessages
  /\ isLoading' = (IF turns[t].mounted THEN FALSE ELSE isLoading)
  /\ turns' = [turns EXCEPT ![t] =
                 Finished(turns[t], [success |-> FALSE, error |-> error], "failed")]

\* A catch block that writes the apology but leaves the message streaming.
FailTurn_StillStreaming(t, error) ==
  LET errorMessage == IF error # Undefined THEN error ELSE FailedToGetResponse
  IN /\ chatMessages' = MapMessage(chatMessages, AssistantId(t), ApologyText(errorMessage), TRUE)
     /\ isLoading' = (IF turns[t].mounted THEN FALSE ELSE isLoading)
     /\ turns' = [turns EXCEPT ![t] =
                    Finished(turns[t], [success |-> FALSE, error |-> error], "failed")]
\* sendChatMessage returned {success: false, error}: the throw, the catch block
\* of handleSendMessage and its finally.
FailTurn(t, error) ==
  LET errorMessage == IF error # Undefined THEN error ELSE FailedToGetResponse
  IN /\ chatMessages' = MapMessage(chatMessages, AssistantId(t), ApologyText(errorMessage), FALSE)
     /\ isLoading' = (IF turns[t].mounted THEN FALSE ELSE isLoading)
     /\ turns' = [turns EXCEPT ![t] =
                    Finished(turns[t], [success |-> FALSE, error |-> error], "failed")]

\* An onChunk that puts the assistant message back when it is gone.
OnChunk_Recreates(t, p, delta) ==
  LET acc == p.acc \o delta
      there == \E i \in 1..Len(p.msgs) : p.msgs[i].id = AssistantId(t)
      msgs0 == IF there THEN p.msgs
               ELSE p.msgs \o <<[id |-> AssistantId(t), type |-> "assistant",
                                 content |-> <<>>, isStreaming |-> TRUE]>>
  IN [msgs |-> MapMessage(msgs0, AssistantId(t), acc, TRUE), acc |-> acc, started |-> TRUE]

\* An onChunk that shows the last delta instead of the accumulated text.
OnChunk_Overwrites(t, p, delta) ==
  [msgs |-> MapMessage(p.msgs, AssistantId(t), delta, TRUE), acc |-> delta, started |-> TRUE]
\* The onChunk callback handleSendMessage passes: p is [msgs, acc, started].
OnChunk(t, p, delta) ==
  LET msgs0 == IF ~p.started THEN MapMessage(p.msgs, AssistantId(t), <<>>, TRUE) ELSE p.msgs
      acc == p.acc \o delta
  IN [msgs |-> MapMessage(msgs0, AssistantId(t), acc, TRUE), acc |-> acc, started |-> TRUE]
RECURSIVE OnChunks(_, _, _)
OnChunks(t, p, deltas) ==
  IF deltas = <<>> THEN p ELSE OnChunks(t, OnChunk(t, p, Head(deltas)), Tail(deltas))

\* ------------------------------------------------ the server
\* A request names a session the server does not know: it never did, or it
\* has forgotten it (its timeout, a restart) together with its documents.
\* The server forgets at any time; the client can see it only in an answer.
ServerForgets(sid) ==
  /\ serverSessions' = serverSessions \ {sid}
  /\ serverDocs' = {d \in serverDocs : d.sess # sid}
  /\ UNCHANGED <<nextSid, nextDoc>>

\* --------------------------------------------- POST /session (createSession)
\* The server creates a session and answers with its id; the response
\* interceptor and createSession both store it (setSessionId).
ServerCanCreate == nextSid < MaxSessions
NewSid == Sid(nextSid + 1)
SessionCreated ==
  /\ nextSid' = nextSid + 1
  /\ serverSessions' = serverSessions \cup {NewSid}
  /\ currentSessionId' = NewSid
  /\ lsSessionId' = NewSid
  /\ UNCHANGED <<serverDocs, nextDoc>>

\* sendChatMessage: await createSession() succeeded; requestData is built and
\* fetch is called with the id getSessionId() now returns.
TurnCreateSessionOk(t) ==
  /\ turns[t].pc = "create"
  /\ ServerCanCreate
  /\ SessionCreated
  /\ turns' = [turns EXCEPT ![t].pc = "fetch", ![t].sessionHeader = NewSid]
  /\ obs' = Sent("chat", NewSid)
  /\ UNCHANGED <<queryVars, nextTurn, pageVars, uploadVars, opVars>>

\* createSession failed: sendChatMessage returns its result.
TurnCreateSessionFail(t) ==
  /\ turns[t].pc = "create"
  /\ FailTurn(t, FailedToCreateSession)
  /\ UNCHANGED <<uploadedDocuments, nextTurn, sessionVars, serverVars, pageVars,
                 uploadVars, opVars, obs>>

\* ------------------------------------------------ POST /chat (fetch)
\* The response arrives with status 200; its body is the text of the frames
\* fs, which the reader will return in chunks.  hdr is the X-Session-ID
\* response header, which sendChatMessage never reads.
ChatResponse(t, hdr, fs) ==
  /\ turns' = [turns EXCEPT ![t].pc = "read", ![t].wire = EncodeAll(fs), ![t].sent = fs]
  /\ obs' = [obs EXCEPT !.expect = IF obs.uploadSid # None /\ hdr # obs.uploadSid
                                   THEN hdr ELSE None,
                        !.expired = FALSE]
  /\ UNCHANGED <<queryVars, nextTurn, sessionVars, pageVars, uploadVars, opVars>>

\* The server knows the session of the request and answers under the same id.
ChatResponseOk(t, fs) ==
  /\ turns[t].pc = "fetch"
  /\ turns[t].sessionHeader \in serverSessions
  /\ ChatResponse(t, turns[t].sessionHeader, fs)
  /\ UNCHANGED serverVars

\* The server answers under a new session id (a rotation, or a session it
\* created because it did not know the one of the request).
ChatResponseRotated(t, fs) ==
  /\ turns[t].pc = "fetch"
  /\ ServerCanCreate
  /\ ChatResponse(t, NewSid, fs)
  /\ nextSid' = nextSid + 1
  /\ serverSessions' = serverSessions \cup {NewSid}
  /\ UNCHANGED <<serverDocs, nextDoc>>

\* Status 404, {detail: "Session not found"}: the server does not know the id.
\* fetch is not axios: no interceptor runs, the session id is kept.
ChatResponseSessionNotFound(t) ==
  /\ turns[t].pc = "fetch"
  /\ ServerForgets(turns[t].sessionHeader)
  /\ FailTurn(t, SessionNotFound)
  /\ obs' = [obs EXCEPT !.expired = TRUE, !.expect = None]
  /\ UNCHANGED <<uploadedDocuments, nextTurn, sessionVars, pageVars, uploadVars, opVars>>

\* Another error status ({detail}) or a rejected fetch (error.message).
ChatResponseError(t, error) ==
  /\ turns[t].pc = "fetch"
  /\ FailTurn(t, error)
  /\ UNCHANGED <<uploadedDocuments, nextTurn, sessionVars, serverVars, pageVars,
                 uploadVars, opVars, obs>>

\* ------------------------------------------------ the response body
\* reader.read() resolved with a chunk, the next n units of the text: one
\* iteration of the while loop, with the onChunk calls it makes, and the
\* return on a done frame.
ReaderRead(t, n) ==
  LET tr == turns[t]
      chunk == SubSeq(tr.wire, 1, n)
      st == ProcessChunk([full |-> tr.fullResponse, out |-> <<>>, ret |-> FALSE,
                          err |-> tr.errSeen, late |-> tr.late], chunk)
      p == OnChunks(t, [msgs |-> chatMessages, acc |-> tr.accumulatedResponse,
                        started |-> tr.hasStartedStreaming], st.out)
      tr1 == [tr EXCEPT !.fullResponse = st.full, !.accumulatedResponse = p.acc,
                        !.hasStartedStreaming = p.started,
                        !.wire = SubSeq(tr.wire, n + 1, Len(tr.wire)),
                        !.received = @ \o st.out, !.errSeen = st.err, !.late = st.late]
  IN /\ tr.pc = "read"
     /\ n \in 1..Len(tr.wire)
     /\ IF st.ret
        THEN CompleteTurn(t, tr1, p.msgs)
        ELSE /\ chatMessages' = p.msgs
             /\ turns' = [turns EXCEPT ![t] = tr1]
             /\ UNCHANGED isLoading
     /\ UNCHANGED <<uploadedDocuments, nextTurn, sessionVars, serverVars, pageVars,
                    uploadVars, opVars, obs>>

\* reader.read() resolved with done: the transport ended.
ReaderDone(t) ==
  /\ turns[t].pc = "read"
  /\ turns[t].wire = <<>>
  /\ CompleteTurn(t, turns[t], chatMessages)
  /\ UNCHANGED <<uploadedDocuments, nextTurn, sessionVars, serverVars, pageVars,
                 uploadVars, opVars, obs>>

\* reader.read() rejected: the connection broke before the body was delivered.
\* The outer catch of sendChatMessage returns error.message.
ReaderError(t) ==
  /\ turns[t].pc = "read"
  /\ turns[t].wire # <<>>
  /\ FailTurn(t, NetworkError)
  /\ UNCHANGED <<uploadedDocuments, nextTurn, sessionVars, serverVars, pageVars,
                 uploadVars, opVars, obs>>

\* ------------------------------------------------ the Upload page
\* A call of FileUpload.handleFiles with the uploadDocuments call it makes.
\*   pc: "none", "create" awaiting POST /session, "post" awaiting the response
\*       of POST /upload-documents, "done"
\*   sessionId: the local of uploadDocuments; hdr: the X-Session-ID sent
\*   closure: the uploadedFiles prop of the render handleFiles was created in
\*   mounted: the Upload page that made the call is still mounted
UploadIds == 1..MaxUploads
NewUpload(closure) == [pc |-> "none", sessionId |-> None, hdr |-> None,
                       closure |-> closure, mounted |-> TRUE]
UploadDone == [pc |-> "done"]

\* handleDrop / handleFileInput -> handleFiles -> uploadDocuments, up to the
\* first await.  (The drop zone stays active while an upload is running.)
HandleFiles ==
  LET u == nextUpload
      S == getSessionId(Store)
  IN /\ page = "upload"
     /\ nextUpload <= MaxUploads
     /\ nextUpload' = u + 1
     /\ SetStore(S)
     /\ uploads' = [uploads EXCEPT ![u] =
                      [NewUpload(uploadedFiles) EXCEPT
                         !.pc = IF S.cur = None THEN "create" ELSE "post",
                         !.sessionId = S.cur, !.hdr = S.cur]]
     /\ obs' = Sent(IF S.cur = None THEN "createSession" ELSE "upload", S.cur)
     /\ UNCHANGED <<uploadedFiles, serverVars, pageVars, queryVars, turnVars, opVars>>

\* uploadDocuments: await createSession() succeeded; the upload is posted with
\* the new id.
UploadCreateSessionOk(u) ==
  /\ uploads[u].pc = "create"
  /\ ServerCanCreate
  /\ SessionCreated
  /\ uploads' = [uploads EXCEPT ![u].pc = "post", ![u].sessionId = NewSid, ![u].hdr = NewSid]
  /\ obs' = Sent("upload", NewSid)
  /\ UNCHANGED <<uploadedFiles, nextUpload, pageVars, queryVars, turnVars, opVars>>

\* createSession failed: uploadDocuments returns its result, handleFiles
\* reports it and returns.
UploadCreateSessionFail(u) ==
  /\ uploads[u].pc = "create"
  /\ uploads' = [uploads EXCEPT ![u] = UploadDone]
  /\ UNCHANGED <<uploadedFiles, nextUpload, sessionVars, serverVars, pageVars, queryVars,
                 turnVars, opVars, obs>>

\* const allFiles = [...uploadedFiles, ...processedFiles]; onFilesUploaded(allFiles)
\* -> Upload.handleFilesUploaded: setUploadedFiles(files)
MergeUploaded(up, processedFiles) ==
  IF up.mounted /\ page = "upload" THEN up.closure \o processedFiles ELSE uploadedFiles

\* POST /upload-documents answered 200 under the session id hdr2 with the new
\* document: the response interceptor, the rest of uploadDocuments and of
\* handleFiles.
UploadResponse(u, hdr2) ==
  LET up == uploads[u]
      doc == [id |-> DocId(nextDoc + 1), sess |-> hdr2]
      S1 == ResponseInterceptor(Store, hdr2)
      \* if (responseSessionId && responseSessionId !== sessionId) setSessionId(...)
      S2 == IF hdr2 # up.sessionId THEN setSessionId(S1, hdr2) ELSE S1
  IN /\ nextDoc' = nextDoc + 1
     /\ serverDocs' = serverDocs \cup {doc}
     /\ SetStore(S2)
     /\ uploadedFiles' = MergeUploaded(up, <<doc>>)
     /\ uploads' = [uploads EXCEPT ![u] = UploadDone]
     /\ obs' = [obs EXCEPT !.uploadSid = hdr2, !.expect = None, !.expired = FALSE]
     /\ UNCHANGED <<nextUpload, pageVars, queryVars, turnVars, opVars>>

\* The server knows the session of the request.
UploadResponseOk(u) ==
  /\ uploads[u].pc = "post"
  /\ uploads[u].hdr \in serverSessions
  /\ UploadResponse(u, uploads[u].hdr)
  /\ UNCHANGED <<serverSessions, nextSid>>

\* The server stores the document under a new session id and announces it.
UploadResponseRotated(u) ==
  /\ uploads[u].pc = "post"
  /\ ServerCanCreate
  /\ UploadResponse(u, NewSid)
  /\ nextSid' = nextSid + 1
  /\ serverSessions' = serverSessions \cup {NewSid}

\* Status 404, {detail: "Session not found"}: the error interceptor drops the
\* session id; uploadDocuments returns the failure, handleFiles reports it.
UploadResponseSessionNotFound(u) ==
  /\ uploads[u].pc = "post"
  /\ ServerForgets(uploads[u].hdr)
  /\ SetStore(ErrorInterceptor(Store, 404, SessionNotFound))
  /\ uploads' = [uploads EXCEPT ![u] = UploadDone]
  /\ obs' = [obs EXCEPT !.expired = TRUE, !.expect = None]
  /\ UNCHANGED <<uploadedFiles, nextUpload, pageVars, queryVars, turnVars, opVars>>

\* Any other failure (a rejected file, a transport error).
UploadResponseError(u) ==
  /\ uploads[u].pc = "post"
  /\ uploads' = [uploads EXCEPT ![u] = UploadDone]
  /\ UNCHANGED <<uploadedFiles, nextUpload, sessionVars, serverVars, pageVars, queryVars,
                 turnVars, opVars, obs>>

FilterOut_RemovesAll(files, fileId) == <<>>

\* array.filter(file => file.id !== fileId)
RECURSIVE FilterOut(_, _)
FilterOut(files, fileId) ==
  IF files = <<>> THEN <<>>
  ELSE IF Head(files).id = fileId THEN FilterOut(Tail(files), fileId)
  ELSE <<Head(files)>> \o FilterOut(Tail(files), fileId)

\* FileUpload.removeFile(fileId): the local removal and the DELETE request,
\* which nobody awaits.
RemoveFile(i) ==
  LET S == getSessionId(Store)
      fileId == uploadedFiles[i].id
  IN /\ page = "upload"
     /\ i \in 1..Len(uploadedFiles)
     /\ nDeletes < MaxDeletes
     /\ nDeletes' = nDeletes + 1
     /\ uploadedFiles' = FilterOut(uploadedFiles, fileId)
     /\ SetStore(S)
     /\ deletes' = deletes \cup {[id |-> fileId, hdr |-> S.cur]}
     /\ obs' = Sent("delete", S.cur)
     /\ UNCHANGED <<uploads, nextUpload, serverVars, pageVars, queryVars, turnVars,
                    lists, clears>>

\* DELETE /documents/{id} answered 200.
DeleteResponseOk(d) ==
  /\ d \in deletes
  /\ d.hdr \in serverSessions
  /\ deletes' = deletes \ {d}
  /\ serverDocs' = {x \in serverDocs : x.id # d.id}
  /\ SetStore(ResponseInterceptor(Store, d.hdr))
  /\ obs' = [obs EXCEPT !.expect = None, !.expired = FALSE]
  /\ UNCHANGED <<serverSessions, nextSid, nextDoc, pageVars, uploadVars, queryVars, turnVars,
                 lists, clears, nDeletes>>

\* DELETE /documents/{id} answered 404 "Session not found".
DeleteResponseSessionNotFound(d) ==
  /\ d \in deletes
  /\ ServerForgets(d.hdr)
  /\ deletes' = deletes \ {d}
  /\ SetStore(ErrorInterceptor(Store, 404, SessionNotFound))
  /\ obs' = [obs EXCEPT !.expired = TRUE, !.expect = None]
  /\ UNCHANGED <<pageVars, uploadVars, queryVars, turnVars, lists, clears, nDeletes>>

\* DELETE /documents/{id} failed otherwise (a server error, no connection):
\* deleteDocument returns the failure, removeFile's catch has nothing to do.
DeleteResponseError(d) ==
  /\ d \in deletes
  /\ deletes' = deletes \ {d}
  /\ UNCHANGED <<sessionVars, serverVars, pageVars, uploadVars, queryVars, turnVars,
                 lists, clears, nDeletes, obs>>

\* ------------------------------------------------ pages and their loading
\* result.data.documents of GET /documents for a session, in upload order
RECURSIVE SortedDocs(_)
SortedDocs(D) ==
  IF D = {} THEN <<>>
  ELSE LET m == CHOOSE x \in D : \A y \in D : x.id[2] <= y.id[2]
       IN <<m>> \o SortedDocs(D \ {m})
DocsOf(sid) == SortedDocs({d \in serverDocs : d.sess = sid})

Unmount(ops) == {[o EXCEPT !.mounted = FALSE] : o \in ops}

\* The router mounts the page `target`: the state of the page that was mounted
\* is gone and its pending calls can no longer set it; the new page starts
\* empty and its effect calls listDocuments().  S, o, cl: the session store,
\* the observers and the clear requests as the step has them so far.
Mount(target, S, o, cl) ==
  LET G == getSessionId(S)
  IN /\ page' = target
     /\ navs' = navs + 1
     /\ uploadedFiles' = <<>>
     /\ uploadedDocuments' = <<>>
     /\ chatMessages' = <<>>
     /\ isLoading' = FALSE
     /\ uploads' = [u \in UploadIds |->
                     IF uploads[u].pc \in {"create", "post"}
                     THEN [uploads[u] EXCEPT !.mounted = FALSE] ELSE uploads[u]]
     /\ turns' = [t \in TurnIds |->
                   IF Active(t) THEN [turns[t] EXCEPT !.mounted = FALSE] ELSE turns[t]]
     /\ clears' = Unmount(cl)
     /\ SetStore(G)
     \* listDocuments: without a session id it returns {documents: []} at once
     /\ lists' = Unmount(lists) \cup
                  (IF G.cur = None THEN {} ELSE {[hdr |-> G.cur, mounted |-> TRUE]})
     /\ obs' = IF G.cur = None THEN o
               ELSE [o EXCEPT !.lastReq = [kind |-> "list", sid |-> G.cur],
                              !.wanted = o.expect, !.expect = None, !.expired = FALSE]
     /\ UNCHANGED <<nextUpload, nextTurn>>

\* proceedToQuery / goToUpload.  The user leaves a page whose chat turn or
\* DELETE is still running, but waits for its upload, list and clear calls.
PagePending ==
  \/ \E u \in UploadIds : uploads[u].pc \in {"create", "post"} /\ uploads[u].mounted
  \/ \E l \in lists : l.mounted
  \/ \E c \in clears : c.mounted
Navigate(target) ==
  /\ page # target
  /\ navs < MaxNav
  /\ target = "query" => uploadedFiles # <<>>   \* proceedToQuery
  /\ ~PagePending
  /\ Mount(target, Store, obs, clears)
  /\ UNCHANGED <<serverVars, deletes, nDeletes>>

\* setUploadedFiles(documents) / setUploadedDocuments(documents) of the page
\* that is mounted and made the call
ListLoaded(l, documents) ==
  /\ uploadedFiles' = (IF l.mounted /\ page = "upload" THEN documents ELSE uploadedFiles)
  /\ uploadedDocuments' = (IF l.mounted /\ page = "query" THEN documents ELSE uploadedDocuments)

\* GET /documents answered 200.
ListResponseOk(l) ==
  /\ l \in lists
  /\ l.hdr \in serverSessions
  /\ lists' = lists \ {l}
  /\ SetStore(ResponseInterceptor(Store, l.hdr))
  /\ ListLoaded(l, DocsOf(l.hdr))
  /\ obs' = [obs EXCEPT !.expect = None, !.expired = FALSE]
  /\ UNCHANGED <<serverVars, pageVars, uploads, nextUpload, chatMessages, isLoading, turnVars,
                 clears, deletes, nDeletes>>

\* GET /documents answered 404 "Session not found": the error interceptor and
\* the catch of listDocuments both drop the session id; the page keeps its list.
ListResponseSessionNotFound(l) ==
  /\ l \in lists
  /\ ServerForgets(l.hdr)
  /\ lists' = lists \ {l}
  /\ SetStore(removeSessionId(ErrorInterceptor(Store, 404, SessionNotFound)))
  /\ obs' = [obs EXCEPT !.expired = TRUE, !.expect = None]
  /\ UNCHANGED <<pageVars, uploadVars, queryVars, turnVars, clears, deletes, nDeletes>>

\* ------------------------------------------------ clear all
\* Upload.clearAllFiles / Query.handleClearDocuments -> clearAllDocuments, up to
\* its await.  Without a session id it returns success at once: the Upload page
\* empties its list, the Query page empties its lists and DocumentPreview
\* navigates to /upload.
ClearAll ==
  LET S == getSessionId(Store)
  IN /\ \/ page = "upload" /\ uploadedFiles # <<>>
        \/ page = "query" /\ uploadedDocuments # <<>>
     /\ \A c \in clears : ~c.mounted
     /\ IF S.cur # None
        THEN /\ SetStore(S)
             /\ clears' = clears \cup {[sid |-> S.cur, mounted |-> TRUE]}
             /\ obs' = Sent("deleteSession", S.cur)
             /\ UNCHANGED <<pageVars, uploadVars, queryVars, turnVars, lists>>
        ELSE IF page = "upload"
        THEN /\ uploadedFiles' = <<>>
             /\ UNCHANGED <<sessionVars, pageVars, uploads, nextUpload, queryVars, turnVars,
                            lists, clears, obs>>
        ELSE Mount("upload", S, obs, clears)
     /\ UNCHANGED <<serverVars, deletes, nDeletes>>

\* What the page does when clearAllDocuments has returned: S, o are the
\* session store and the observers after clearAllDocuments.
AfterClear(c, success, S, o) ==
  IF c.mounted /\ page = "query"
  THEN Mount("upload", S, o, clears \ {c})
  ELSE /\ SetStore(S)
       /\ obs' = o
       /\ clears' = clears \ {c}
       /\ uploadedFiles' = (IF c.mounted /\ page = "upload" /\ success THEN <<>>
                            ELSE uploadedFiles)
       /\ UNCHANGED <<pageVars, uploads, nextUpload, queryVars, turnVars, lists>>

\* DELETE /session/{id} answered 200: the session and its documents are gone
\* on the server, clearAllDocuments drops the session id.
ClearResponseOk(c) ==
  /\ c \in clears
  /\ c.sid \in serverSessions
  /\ serverSessions' = serverSessions \ {c.sid}
  /\ serverDocs' = {d \in serverDocs : d.sess # c.sid}
  /\ AfterClear(c, TRUE, removeSessionId(Store), [obs EXCEPT !.expect = None, !.expired = FALSE])
  /\ UNCHANGED <<nextSid, nextDoc, deletes, nDeletes>>

\* DELETE /session/{id} answered 404 "Session not found".
ClearResponseSessionNotFound(c) ==
  /\ c \in clears
  /\ ServerForgets(c.sid)
  /\ AfterClear(c, FALSE, ErrorInterceptor(Store, 404, SessionNotFound),
                [obs EXCEPT !.expired = TRUE, !.expect = None])
  /\ UNCHANGED <<deletes, nDeletes>>

\* DELETE /session/{id} failed otherwise.
ClearResponseError(c) ==
  /\ c \in clears
  /\ AfterClear(c, FALSE, Store, obs)
  /\ UNCHANGED <<serverVars, deletes, nDeletes>>

\* ------------------------------------------------------- specifications
NoUpload == [pc |-> "none"]
NoObs == [lastReq |-> [kind |-> "none", sid |-> None], wanted |-> None, expect |-> None, expired |-> FALSE,
          uploadSid |-> None]
Doc(n, sid) == [id |-> DocId(n), sess |-> sid]

\* The application opened at /query by a browser that kept the session id of
\* an earlier visit, whose one document the server still holds: the Query page
\* is mounted and its effect has called listDocuments().
InitPages ==
  /\ currentSessionId = Sid(1)
  /\ lsSessionId = Sid(1)
  /\ serverSessions = {Sid(1)}
  /\ serverDocs = {Doc(1, Sid(1))}
  /\ nextSid = 1
  /\ nextDoc = 1
  /\ page = "query"
  /\ navs = 0
  /\ uploadedFiles = <<>>
  /\ uploads = [u \in UploadIds |-> NoUpload]
  /\ nextUpload = 1
  /\ uploadedDocuments = <<>>
  /\ chatMessages = <<>>
  /\ isLoading = FALSE
  /\ turns = [t \in TurnIds |-> NoTurn]
  /\ nextTurn = 0
  /\ lists = {[hdr |-> Sid(1), mounted |-> TRUE]}
  /\ clears = {}
  /\ deletes = {}
  /\ nDeletes = 0
  /\ obs = [NoObs EXCEPT !.lastReq = [kind |-> "list", sid |-> Sid(1)]]

\* The chat of one Query page, against every stream the server can write and
\* every way the network can cut it.  It starts where the page above has
\* loaded its document.
InitStream ==
  /\ currentSessionId = Sid(1)
  /\ lsSessionId = Sid(1)
  /\ serverSessions = {Sid(1)}
  /\ serverDocs = {Doc(1, Sid(1))}
  /\ nextSid = 1
  /\ nextDoc = 1
  /\ page = "query"
  /\ navs = 0
  /\ uploadedFiles = <<>>
  /\ uploads = [u \in UploadIds |-> NoUpload]
  /\ nextUpload = 1
  /\ uploadedDocuments = <<Doc(1, Sid(1))>>
  /\ chatMessages = <<>>
  /\ isLoading = FALSE
  /\ turns = [t \in TurnIds |-> NoTurn]
  /\ nextTurn = 0
  /\ lists = {}
  /\ clears = {}
  /\ deletes = {}
  /\ nDeletes = 0
  /\ obs = [NoObs EXCEPT !.lastReq = [kind |-> "list", sid |-> Sid(1)]]

\* The bodies the server may send: up to MaxFrames frames, or one of two.
SpecBodies == {<<>>, <<ContentFrame("a"), DoneFrame>>}
Bodies(F) == UNION {[1..k -> F] : k \in 0..MaxFrames}

NextStream ==
  \/ \E input \in Inputs : HandleSubmit(input)
  \/ HandleRegenerateResponse
  \/ HandleClearChat
  \/ \E t \in TurnIds :
       \/ \E fs \in Bodies(Frames) : ChatResponseOk(t, fs)
       \/ ChatResponseError(t, ChatRequestFailed)
       \/ \E n \in 1..Len(turns[t].wire) : ReaderRead(t, n)
       \/ ReaderDone(t)
       \/ ReaderError(t)

SpecStream == InitStream /\ [][NextStream]_vars

\* What the network owes a turn in flight: an answer to its chat request,
\* then the chunks of the stream, then its end or its failure.
StreamProgress(t) ==
  \/ \E fs \in Bodies(Frames) : ChatResponseOk(t, fs)
  \/ ChatResponseError(t, ChatRequestFailed)
  \/ \E n \in 1..Len(turns[t].wire) : ReaderRead(t, n)
  \/ ReaderDone(t)
  \/ ReaderError(t)

\* The same chat when every pending fetch and every pending reader.read()
\* eventually resolves or rejects.
FairStream == SpecStream /\ \A t \in TurnIds : WF_vars(StreamProgress(t))

\* The chat across visits of the Query page: the user sends messages and goes
\* to the Upload page and back while the server answers when it likes.
NextPages ==
  \/ \E input \in Inputs : HandleSubmit(input)
  \/ \E target \in {"upload", "query"} : Navigate(target)
  \/ \E l \in lists : ListResponseOk(l)
  \/ \E t \in TurnIds :
       \/ \E fs \in SpecBodies : ChatResponseOk(t, fs)
       \/ ChatResponseError(t, ChatRequestFailed)
       \/ ReaderRead(t, Len(turns[t].wire))
       \/ ReaderDone(t)

SpecPages == InitPages /\ [][NextPages]_vars


\* -------------------------------- the Upload page of src/frontend/src/pages
\* This page's FileUpload adds the dropped files to the list without sending
\* them (its upload call is commented out), removeFile filters the list only,
\* and "Clear All" is clearAllFiles below.

\* The entry handleFiles builds for a dropped file: id `file-<time>-<random>`.
LocalFile(n) == [id |-> <<"file", n>>, sess |-> None]

\* handleDrop / handleFileInput -> handleFiles, up to the first await of the
\* simulated progress.
HandleFilesLocal ==
  /\ page = "upload"
  /\ nextUpload <= MaxUploads
  /\ nextUpload' = nextUpload + 1
  /\ uploads' = [uploads EXCEPT ![nextUpload] =
                   [NewUpload(uploadedFiles) EXCEPT !.pc = "progress"]]
  /\ UNCHANGED <<uploadedFiles, sessionVars, serverVars, pageVars, queryVars, turnVars,
                 opVars, obs>>

\* The progress loop is over: onFilesUploaded([...uploadedFiles, ...validFiles])
FilesAddedLocal(u) ==
  /\ uploads[u].pc = "progress"
  /\ uploadedFiles' = MergeUploaded(uploads[u], <<LocalFile(u)>>)
  /\ uploads' = [uploads EXCEPT ![u] = UploadDone]
  /\ UNCHANGED <<nextUpload, sessionVars, serverVars, pageVars, queryVars, turnVars,
                 opVars, obs>>

\* removeFile(fileId): onFilesUploaded(uploadedFiles.filter(...))
RemoveFileLocal(i) ==
  /\ page = "upload"
  /\ i \in 1..Len(uploadedFiles)
  /\ uploadedFiles' = FilterOut(uploadedFiles, uploadedFiles[i].id)
  /\ UNCHANGED <<uploads, nextUpload, sessionVars, serverVars, pageVars, queryVars,
                 turnVars, opVars, obs>>

\* clearSession(): currentSessionId = null; localStorage.removeItem('sessionId')
clearSession(S) == removeSessionId(S)

\* clearAllFiles: setUploadedFiles([]); apiService.clearSession().  The button
\* is rendered while the list is not empty.
clearAllFiles ==
  /\ page = "upload"
  /\ uploadedFiles # <<>>
  /\ uploadedFiles' = <<>>
  /\ SetStore(clearSession(Store))
  /\ UNCHANGED <<uploads, nextUpload, serverVars, pageVars, queryVars, turnVars,
                 opVars, obs>>

\* The page is loaded by a browser that stored session 1 on an earlier visit;
\* the server holds that session and its document.  The mount effect has sent
\* GET /documents.
InitFrontend ==
  /\ currentSessionId = Sid(1)
  /\ lsSessionId = Sid(1)
  /\ serverSessions = {Sid(1)}
  /\ serverDocs = {Doc(1, Sid(1))}
  /\ nextSid = 1
  /\ nextDoc = 1
  /\ page = "upload"
  /\ navs = 0
  /\ uploadedFiles = <<>>
  /\ uploads = [u \in UploadIds |-> NoUpload]
  /\ nextUpload = 1
  /\ uploadedDocuments = <<>>
  /\ chatMessages = <<>>
  /\ isLoading = FALSE
  /\ turns = [t \in TurnIds |-> NoTurn]
  /\ nextTurn = 0
  /\ lists = {[hdr |-> Sid(1), mounted |-> TRUE]}
  /\ clears = {}
  /\ deletes = {}
  /\ nDeletes = 0
  /\ obs = [NoObs EXCEPT !.lastReq = [kind |-> "list", sid |-> Sid(1)]]

NextFrontend ==
  \/ \E l \in lists : ListResponseOk(l)
  \/ HandleFilesLocal
  \/ \E u \in UploadIds : FilesAddedLocal(u)
  \/ \E i \in 1..Len(uploadedFiles) : RemoveFileLocal(i)
  \/ clearAllFiles

SpecFrontend == InitFrontend /\ [][NextFrontend]_vars

\* The whole client from a fresh load of the Upload page, against a server
\* that answers chat requests with one of a few whole bodies.
Init ==
  /\ currentSessionId = None
  /\ lsSessionId = None
  /\ serverSessions = {}
  /\ serverDocs = {}
  /\ nextSid = 0
  /\ nextDoc = 0
  /\ page = "upload"
  /\ navs = 0
  /\ uploadedFiles = <<>>
  /\ uploads = [u \in UploadIds |-> NoUpload]
  /\ nextUpload = 1
  /\ uploadedDocuments = <<>>
  /\ chatMessages = <<>>
  /\ isLoading = FALSE
  /\ turns = [t \in TurnIds |-> NoTurn]
  /\ nextTurn = 0
  /\ lists = {}
  /\ clears = {}
  /\ deletes = {}
  /\ nDeletes = 0
  /\ obs = NoObs


\* The Upload page from a fresh load, against a server that keeps the sessions
\* it created and answers under the session id of the request.
NextUpload ==
  \/ HandleFiles
  \/ \E u \in UploadIds :
       \/ UploadCreateSessionOk(u)
       \/ UploadCreateSessionFail(u)
       \/ UploadResponseOk(u)
       \/ UploadResponseError(u)
  \/ \E i \in 1..Len(uploadedFiles) : RemoveFile(i)
  \/ \E d \in deletes : DeleteResponseOk(d) \/ DeleteResponseError(d)
  \/ ClearAll
  \/ \E c \in clears : ClearResponseOk(c) \/ ClearResponseError(c)

SpecUpload == Init /\ [][NextUpload]_vars

Next ==
  \/ HandleFiles
  \/ \E u \in UploadIds :
       \/ UploadCreateSessionOk(u)
       \/ UploadCreateSessionFail(u)
       \/ UploadResponseOk(u)
       \/ UploadResponseRotated(u)
       \/ UploadResponseSessionNotFound(u)
       \/ UploadResponseError(u)
  \/ \E i \in 1..Len(uploadedFiles) : RemoveFile(i)
  \/ \E d \in deletes :
       \/ DeleteResponseOk(d)
       \/ DeleteResponseSessionNotFound(d)
       \/ DeleteResponseError(d)
  \/ \E target \in {"upload", "query"} : Navigate(target)
  \/ \E l \in lists : ListResponseOk(l) \/ ListResponseSessionNotFound(l)
  \/ ClearAll
  \/ \E c \in clears :
       \/ ClearResponseOk(c)
       \/ ClearResponseSessionNotFound(c)
       \/ ClearResponseError(c)
  \/ \E input \in Inputs : HandleSubmit(input)
  \/ HandleRegenerateResponse
  \/ HandleClearChat
  \/ \E t \in TurnIds :
       \/ TurnCreateSessionOk(t)
       \/ TurnCreateSessionFail(t)
       \/ \E fs \in SpecBodies : ChatResponseOk(t, fs) \/ ChatResponseRotated(t, fs)
       \/ ChatResponseSessionNotFound(t)
       \/ ChatResponseError(t, ChatRequestFailed)
       \/ ReaderRead(t, Len(turns[t].wire))
       \/ ReaderDone(t)
       \/ ReaderError(t)

Spec == Init /\ [][Next]_vars

\* ------------------------------------------------------------ properties
WellFormed(fs) == \A i \in 1..Len(fs) : fs[i] \in WellFormedFrames
Completed(t) == turns[t].outcome = "completed"
Ended(t) == turns[t].outcome # "none"
\* the places of a turn's assistant message in the history (none or one)
PlacesOf(t) == {i \in 1..Len(chatMessages) : chatMessages[i].id = AssistantId(t)}

\* C1 (as claimed): whatever the cuts of the network, a completed turn over a
\* well-formed frame stream has passed to onChunk deltas whose concatenation
\* is the one obtained with every frame whole in a chunk of its own, and has
\* returned that text as the full response.
C1_ChunkingInvariance ==
  \A t \in TurnIds :
    (Completed(t) /\ WellFormed(turns[t].sent))
      => /\ Flatten(turns[t].received) = Flatten(Reference(turns[t].sent).deltas)
         /\ turns[t].result.response = Reference(turns[t].sent).full

\* C2 (as claimed): once a frame with an error field has been decoded, the
\* turn has ended Failed with the frame's message as its error, and no content
\* delta was passed to onChunk after that frame.
C2_ErrorFrameStopsDecoding ==
  \A t \in TurnIds :
    turns[t].errSeen # Undefined
      => /\ ~turns[t].late
         /\ turns[t].outcome = "failed"
         /\ turns[t].result.error = turns[t].errSeen

\* C3 (as claimed): when a turn started by regenerate after a completed turn
\* has ended (and the chat was not cleared meanwhile), the history is as long
\* as it was when regenerate was called, and the message before its last is
\* the user message that was there before, not one the turn appended.
C3_RegenerateKeepsLength ==
  \A t \in TurnIds :
    (turns[t].regenerated /\ turns[t].after = "completed" /\ Ended(t) /\ chatMessages # <<>>)
      => /\ Len(chatMessages) = turns[t].lenBefore
         /\ chatMessages[Len(chatMessages) - 1].id # UserId(t)

\* the server ended the stream of the turn with a done frame
EndsWithDone(fs) == fs # <<>> /\ fs[Len(fs)] = DoneFrame
\* C5 (as claimed): the assistant message of a turn completed by a done frame
\* holds exactly the concatenation of the deltas received in the turn, the
\* empty text when there was none.
C5_ContentIsConcatenation ==
  \A t \in TurnIds : \A i \in PlacesOf(t) :
    (Completed(t) /\ WellFormed(turns[t].sent) /\ EndsWithDone(turns[t].sent))
      => chatMessages[i].content = Flatten(turns[t].received)

\* C5 (amended): the assistant message of a completed turn holds the
\* concatenation, in arrival order, of the deltas received in the turn when
\* there was at least one, and the text 'No response received' when there was
\* none.
C5_ContentOrNoResponse ==
  \A t \in TurnIds : \A i \in PlacesOf(t) :
    Completed(t) =>
      chatMessages[i].content = (IF Flatten(turns[t].received) # <<>>
                                 THEN Flatten(turns[t].received) ELSE NoResponseText)

\* a turn completed by a done frame without a delta, its message showing the
\* fallback text, after an earlier turn completed with two deltas
C5_Witness ==
  \E t \in TurnIds : \E i \in PlacesOf(t) :
    /\ Completed(t)
    /\ turns[t].sent = <<DoneFrame>>
    /\ turns[t].received = <<>>
    /\ chatMessages[i].content = NoResponseText
    /\ \E j \in 1..Len(chatMessages) : Len(chatMessages[j].content) = 2 /\ ~chatMessages[j].isStreaming

\* C6 (as claimed): the roles of the history alternate, starting with user.
Alternates(msgs) ==
  \A i \in 1..Len(msgs) : msgs[i].type = (IF i % 2 = 1 THEN "user" ELSE "assistant")
C6_HistoryAlternates == Alternates(chatMessages)

\* C7: at most one message of the history is streaming, and one is only
\* while isLoading is true.
StreamingPlaces == {i \in 1..Len(chatMessages) : chatMessages[i].isStreaming}
C7_OneStreamingWhileLoading ==
  /\ Cardinality(StreamingPlaces) <= 1
  /\ StreamingPlaces # {} => isLoading

\* the second turn is streaming, with text received, after the first ended
C7_Witness ==
  /\ Len(chatMessages) >= 4
  /\ StreamingPlaces = {Len(chatMessages)}
  /\ chatMessages[Len(chatMessages)].content # <<>>
  /\ chatMessages[2].content = ApologyText(ChatRequestFailed)
  /\ isLoading

\* C4 (as claimed): at most one chat request is in flight at any time.
InFlight == {t \in TurnIds : turns[t].pc \in {"fetch", "read"}}
C4_SingleFlight == Cardinality(InFlight) <= 1

\* C8 (as claimed): when a chat response announced a session id other than
\* the one the upload response before it announced, the next request the
\* client sends carries the id of the chat response.
C8_RotationFollowed == obs.wanted # None => obs.lastReq.sid = obs.wanted

\* C9 (as claimed): every document of the local list is a document of the
\* session the client holds, and every document attached to a chat request is
\* one of the session the request names.
OfSession(docs, sid) == \A i \in 1..Len(docs) : docs[i].sess = sid
C9_DocumentsOfHeldSession ==
  /\ OfSession(uploadedFiles, HeldSid)
  /\ OfSession(uploadedDocuments, HeldSid)
  /\ \A t \in TurnIds : turns[t].pc = "fetch" => OfSession(turns[t].documents, turns[t].sessionHeader)

\* C10 (as claimed): after a call was answered 404 "Session not found" the
\* client holds no session id, no document and no chat message; and it never
\* holds a document or a chat message without holding a session id.
NothingLocal == uploadedFiles = <<>> /\ uploadedDocuments = <<>> /\ chatMessages = <<>>
C10_ExpiredClearsAll ==
  /\ obs.expired => (HeldSid = None /\ NothingLocal)
  /\ HeldSid = None => NothingLocal

\* C11 (as claimed): after a request was answered 404 "Session not found" the
\* client holds no session id, neither in memory nor in localStorage.
C11_UnknownSessionDropped ==
  obs.expired => (currentSessionId = None /\ lsSessionId = None)

\* C12 (as claimed): the server holds at most one live session of the client,
\* or else every upload request in flight carries the session id the client
\* holds and every stored document is bound to it.
C12_OneLiveSession ==
  \/ Cardinality(serverSessions) <= 1
  \/ /\ \A u \in UploadIds : uploads[u].pc = "post" => uploads[u].hdr = HeldSid
     /\ \A d \in serverDocs : d.sess = HeldSid

\* The step in which operation o (an upload or a chat turn) leaves its await of
\* createSession: with a session (to) or with the failure (done).
CreateEnded(before, after, to) == before.pc = "create" /\ after.pc = to

\* C13 (as claimed): an upload or a chat request is sent only with a session id
\* attached; an operation that had to create a session sends its request under
\* the id it stored in memory and in localStorage; and when the creation fails
\* the operation ends without sending anything and no session id is held.
C13_EnsureBeforeUse ==
  [][ /\ \A u \in UploadIds :
           /\ uploads'[u].pc = "post" => uploads'[u].hdr # None
           /\ CreateEnded(uploads[u], uploads'[u], "post") =>
                /\ uploads'[u].hdr = currentSessionId'
                /\ lsSessionId' = currentSessionId'
                /\ obs'.lastReq = [kind |-> "upload", sid |-> currentSessionId']
           /\ CreateEnded(uploads[u], uploads'[u], "done") =>
                /\ obs'.lastReq = obs.lastReq
                /\ serverDocs' = serverDocs
                /\ currentSessionId' = None /\ lsSessionId' = None
      /\ \A t \in TurnIds :
           /\ turns'[t].pc = "fetch" => turns'[t].sessionHeader # None
           /\ CreateEnded(turns[t], turns'[t], "fetch") =>
                /\ turns'[t].sessionHeader = currentSessionId'
                /\ lsSessionId' = currentSessionId'
                /\ obs'.lastReq = [kind |-> "chat", sid |-> currentSessionId']
           /\ CreateEnded(turns[t], turns'[t], "done") =>
                /\ obs'.lastReq = obs.lastReq
                /\ turns'[t].outcome = "failed"
                /\ currentSessionId' = None /\ lsSessionId' = None
    ]_vars

\* The documents of the local list.
Listed == {uploadedFiles[i] : i \in 1..Len(uploadedFiles)}

\* C14 (as claimed): as long as nothing was deleted and all uploads went to one
\* session, every document a successful upload stored on the server is in the
\* local list of the Upload page, however the uploads overlapped.
C14_OverlapAdditive ==
  (page = "upload" /\ nDeletes = 0 /\ Cardinality(serverSessions) <= 1)
     => serverDocs \subseteq Listed

\* A "clear all" of the client for session sid has succeeded in this step:
\* clearAllDocuments, called while sid was held, returned success to its page,
\* or clearAllFiles ran while sid was held.
ClearAllDone(sid) ==
  \/ HeldSid = sid /\ clearAllFiles
  \/ \E c \in clears : c.sid = sid /\ ClearResponseOk(c)

\* C15 (as claimed): when a "clear all" succeeds for a session that was held,
\* that session and its documents are deleted on the server, the client holds
\* no session id in memory or in localStorage, and the page's list is empty.
C15_ClearAllDeletesSession ==
  [][ \A sid \in serverSessions :
        ClearAllDone(sid) =>
           /\ sid \notin serverSessions'
           /\ \A d \in serverDocs' : d.sess # sid
           /\ currentSessionId' = None /\ lsSessionId' = None
           /\ uploadedFiles' = <<>> /\ uploadedDocuments' = <<>>
    ]_vars

\* removeFile(fileId) ran in this step: the step that issues the DELETE for it.
Removed(fileId) ==
  /\ nDeletes' = nDeletes + 1
  /\ \E d \in deletes' \ deletes : d.id = fileId

\* C16 (amended): removeFile takes exactly the chosen document out of the local
\* list at once and leaves the held session id alone; a DELETE that fails later
\* leaves the list as it is, and leaves the session id as it is unless the
\* failure is the 404 "Session not found", on which the client drops the id.
C16_DeleteKeepsRemoval ==
  [][ /\ \A i \in 1..Len(uploadedFiles) :
           Removed(uploadedFiles[i].id) =>
              /\ Len(uploadedFiles') = Len(uploadedFiles) - 1
              /\ \A j \in 1..Len(uploadedFiles') :
                   uploadedFiles'[j] = uploadedFiles[IF j < i THEN j ELSE j + 1]
              /\ HeldSid' = HeldSid
      /\ \A d \in deletes :
           /\ DeleteResponseError(d) =>
                uploadedFiles' = uploadedFiles /\ sessionVars' = sessionVars
           /\ DeleteResponseSessionNotFound(d) =>
                uploadedFiles' = uploadedFiles /\ HeldSid' = None
    ]_vars

\* C16 witness: the only upload's document was removed from the list, the
\* DELETE has been answered, and the server still holds the document.
C16_Witness ==
  /\ page = "upload" /\ nextUpload = 2 /\ uploads[1].pc = "done"
  /\ nDeletes = 1 /\ deletes = {} /\ clears = {}
  /\ uploadedFiles = <<>>
  /\ Cardinality(serverDocs) = 1
  /\ HeldSid # None

\* C16 (as claimed): a DELETE that fails changes neither the list nor the
\* session id.
C16_FailedDeleteChangesNothing ==
  [][ \A d \in deletes :
        (DeleteResponseError(d) \/ DeleteResponseSessionNotFound(d)) =>
           uploadedFiles' = uploadedFiles /\ HeldSid' = HeldSid
    ]_vars

\* C17 (as claimed): when the first frame of the stream is an error frame and
\* the decoder has read it, the ended turn's assistant message holds the
\* apology with the frame's error message, is not streaming, and the page is
\* idle again.
C17_ErrorFirstReported ==
  \A t \in TurnIds : \A i \in PlacesOf(t) :
    (/\ Ended(t)
     /\ turns[t].sent # <<>> /\ Head(turns[t].sent) = ErrorFrame
     /\ turns[t].errSeen # Undefined)
      => /\ chatMessages[i].content = ApologyText(turns[t].errSeen)
         /\ ~chatMessages[i].isStreaming
         /\ ~isLoading

\* the server wrote content frames only: no done, no error frame
OnlyContent(fs) == \A i \in 1..Len(fs) : fs[i].kind = "content"
\* the transport of turn t ends in this step: read() resolves with done
TransportEnds(t) == turns[t].pc = "read" /\ turns[t].wire = <<>> /\ turns'[t].pc = "done"

\* C18: when the transport ends after at least one delta was received and the
\* server wrote neither a done nor an error frame, the turn is completed, not
\* failed; its assistant message (unless the chat was cleared meanwhile) holds
\* the concatenation of the deltas received and is not streaming; and the
\* page is idle.
C18_TransportEndCompletes ==
  [][ \A t \in TurnIds :
        (TransportEnds(t) /\ OnlyContent(turns[t].sent) /\ turns[t].received # <<>>) =>
           /\ turns'[t].outcome = "completed"
           /\ turns'[t].result.success
           /\ \A i \in 1..Len(chatMessages') :
                chatMessages'[i].id = AssistantId(t) =>
                   /\ chatMessages'[i].content = Flatten(turns'[t].received)
                   /\ ~chatMessages'[i].isStreaming
           /\ ~isLoading'
    ]_vars

\* C18 witness: a turn completed at the end of a stream of two content frames,
\* its message holding both deltas.
C18_Witness ==
  \E t \in TurnIds : \E i \in PlacesOf(t) :
    /\ Completed(t)
    /\ turns[t].sent = <<ContentFrame("a"), ContentFrame("b")>>
    /\ Len(turns[t].received) = 2
    /\ chatMessages[i].content = <<"a", "b">>
    /\ ~chatMessages[i].isStreaming
    /\ ~isLoading

\* the error texts sendChatMessage can return
ErrorTexts == {FailedToCreateSession, ChatRequestFailed, SessionNotFound, NetworkError}
\* A turn-fatal condition of turn t occurs in this step: createSession failed,
\* the chat request was rejected or answered with a non-success status, or
\* reading the stream failed.
Fatal(t) ==
  \/ turns[t].pc \in {"create", "fetch"} /\ turns'[t].pc = "done"
  \/ ReaderError(t)

\* C19: a turn-fatal condition ends the turn failed; the turn's assistant
\* message then holds the apology with the error text and is not streaming;
\* and where the turn's user message is in the history, so is its assistant
\* message.
C19_FatalIsReported ==
  [][ \A t \in TurnIds :
        Fatal(t) =>
           /\ turns'[t].outcome = "failed"
           /\ turns'[t].result.error \in ErrorTexts
           /\ \A i \in 1..Len(chatMessages') :
                /\ chatMessages'[i].id = AssistantId(t) =>
                     /\ chatMessages'[i].content = ApologyText(turns'[t].result.error)
                     /\ ~chatMessages'[i].isStreaming
                /\ chatMessages'[i].id = UserId(t) =>
                     \E j \in 1..Len(chatMessages') : chatMessages'[j].id = AssistantId(t)
    ]_vars

\* C19 witness: a turn that had to create a session and could not has ended,
\* its user message answered by the apology.
C19_Witness ==
  \E t \in TurnIds : \E i \in PlacesOf(t) :
    /\ turns[t].outcome = "failed"
    /\ turns[t].result.error = FailedToCreateSession
    /\ i > 1 /\ chatMessages[i - 1].id = UserId(t)
    /\ chatMessages[i].content = ApologyText(FailedToCreateSession)
    /\ ~chatMessages[i].isStreaming

\* C20: when every pending request and read is eventually answered, a turn in
\* flight leads to that turn ended (completed or failed) with the page idle:
\* isLoading false, no message streaming, and a new message accepted.
C20_TurnsClose ==
  \A t \in TurnIds :
    Active(t) ~> (/\ Ended(t)
                  /\ ~isLoading
                  /\ StreamingPlaces = {}
                  /\ SubmitAccepted(<<"q">>))

\* C20 witness: the first turn has closed, a later send was accepted and that
\* turn has closed too, leaving the page idle.
C20_Witness ==
  /\ nextTurn = 2
  /\ Ended(2)
  /\ Len(chatMessages) = 4
  /\ ~isLoading
  /\ StreamingPlaces = {}

\* The client has no cancel operation: sendChatMessage passes no abort signal
\* to fetch and keeps no handle on the reader.  What a user can do to abandon
\* a turn in flight is leave the Query page, which unmounts the component
\* that started it.
Abandoned(t) == Active(t) /\ ~turns[t].mounted

\* C21 (as claimed, with leaving the page as the cancel): once a turn in
\* flight was abandoned no further content delta is passed to onChunk, and the
\* turn ends as a failure.
C21_CancelStopsTurn ==
  [][ \A t \in TurnIds :
        Abandoned(t) =>
           /\ turns'[t].received = turns[t].received
           /\ turns'[t].pc = "done" => turns'[t].outcome = "failed"
    ]_vars

\* handleSendMessage starts turn t in this step
Starts(t) == nextTurn = t - 1 /\ nextTurn' = t
\* the history holds the two messages of turn t and nothing else
OnlyTurn(msgs, t) ==
  /\ Len(msgs) = 2
  /\ msgs[1].id = UserId(t) /\ msgs[1].type = "user"
  /\ msgs[2].id = AssistantId(t) /\ msgs[2].type = "assistant"

\* C22: clear empties the history; a send from the emptied history puts an
\* empty history in its request and makes the history the user message x and
\* one assistant message; and when that turn has ended the history is still
\* those two messages, the assistant's no longer streaming (or empty, if the
\* user cleared again during the turn).
C22_ClearThenSend ==
  [][ /\ HandleClearChat => chatMessages' = <<>>
      /\ \A t \in TurnIds :
           /\ (Starts(t) /\ chatMessages = <<>>) =>
                /\ turns'[t].history = <<>>
                /\ OnlyTurn(chatMessages', t)
                /\ chatMessages'[1].content = turns'[t].message
           /\ (turns'[t].outcome # "none" /\ turns'[t].lenBefore = 0
                 /\ ~turns'[t].regenerated /\ chatMessages' # <<>>) =>
                /\ OnlyTurn(chatMessages', t)
                /\ ~chatMessages'[2].isStreaming
    ]_vars

\* C22 witness: the second turn, sent after the chat of the first was
\* cleared, has ended and the history holds its two messages only.
C22_Witness ==
  /\ nextTurn = 2
  /\ Ended(2)
  /\ turns[2].lenBefore = 0 /\ ~turns[2].regenerated
  /\ OnlyTurn(chatMessages, 2)
  /\ chatMessages[1].content = <<"q">>

\* the history as it is when the request of a turn is built: for regenerate,
\* the history without what regenerate has just removed
HistoryAtRequest(regenerated) ==
  IF regenerated THEN SubSeq(chatMessages, 1, LastUserIndex(chatMessages)) ELSE chatMessages

\* C23 (as claimed): the history field of a turn's chat request is the
\* role-mapped history as it is when the request is built; the request of
\* regenerate holds the history up to the last user message, without the
\* assistant message regenerate removed.
C23_RequestHistoryIsCurrent ==
  [][ \A t \in TurnIds :
        Starts(t) => turns'[t].history = RoleMap(HistoryAtRequest(turns'[t].regenerated))
    ]_vars

\* C24: while the history is empty, every step other than a send leaves it
\* empty, so the deltas, the completion and the failure of a turn whose
\* messages were cleared re-create nothing; that turn still yields its
\* outcome, and the step that ends it sets isLoading to false.
C24_ClearedTurnIsNoOp ==
  [][ /\ (chatMessages = <<>> /\ nextTurn' = nextTurn) => chatMessages' = <<>>
      /\ \A t \in TurnIds :
           (Active(t) /\ turns'[t].pc = "done") =>
              /\ turns'[t].outcome \in {"completed", "failed"}
              /\ ~isLoading'
    ]_vars

\* C24 witness: a turn is streaming, deltas still to come, and the history
\* has been cleared.
C24_Witness ==
  \E t \in TurnIds :
    /\ turns[t].pc = "read"
    /\ turns[t].hasStartedStreaming
    /\ turns[t].wire # <<>>
    /\ chatMessages = <<>>
    /\ isLoading

\* C25 (as claimed): while a turn is in flight (isLoading) the user cannot
\* empty the history.
C25_ClearOnlyWhenIdle ==
  [][ (isLoading /\ chatMessages # <<>>) => chatMessages' # <<>> ]_vars

\* the deltas of the content frames of a stream, in order, up to its first
\* frame with the done flag; malformed frames yield nothing
RECURSIVE ContentsBeforeDone(_)
ContentsBeforeDone(fs) ==
  IF fs = <<>> THEN <<>>
  ELSE CASE Head(fs).kind = "content"     -> <<<<Head(fs).v>>>> \o ContentsBeforeDone(Tail(fs))
         [] Head(fs).kind = "contentdone" -> <<<<Head(fs).v>>>>
         [] Head(fs).kind = "done"        -> <<>>
         [] OTHER                         -> ContentsBeforeDone(Tail(fs))
HasMalformed(fs) == \E i \in 1..Len(fs) : fs[i] = MalformedFrame
NoErrorFrame(fs) == \A i \in 1..Len(fs) : fs[i] # ErrorFrame

\* C26 (as claimed): a turn completed over a stream with a malformed data line
\* (and no error frame) has passed to onChunk the content of every well-formed
\* content frame of the stream, those before and those after the malformed
\* line, in order.
C26_MalformedLineSkipped ==
  \A t \in TurnIds :
    (Completed(t) /\ HasMalformed(turns[t].sent) /\ NoErrorFrame(turns[t].sent))
      => turns[t].received = ContentsBeforeDone(turns[t].sent)

\* a frame with the done flag
IsDone(f) == f.kind \in {"done", "contentdone"}
\* the deltas of all the content of a stream, in order
RECURSIVE AllContents(_)
AllContents(fs) ==
  IF fs = <<>> THEN <<>>
  ELSE (IF Head(fs).kind \in {"content", "contentdone"} THEN <<<<Head(fs).v>>>> ELSE <<>>)
         \o AllContents(Tail(fs))
\* a is b with some elements left out
RECURSIVE IsSubseq(_, _)
IsSubseq(a, b) ==
  IF a = <<>> THEN TRUE
  ELSE IF b = <<>> THEN FALSE
  ELSE IF Head(a) = Head(b) THEN IsSubseq(Tail(a), Tail(b))
  ELSE IsSubseq(a, Tail(b))
\* The read loop of turn t processes a frame with the done flag in this step:
\* sendChatMessage returns success although the body is not read to its end.
DoneProcessed(t) ==
  turns[t].pc = "read" /\ turns[t].wire # <<>> /\ turns'[t].outcome = "completed"

\* C27: when the read loop processes a frame with the done flag, the turn
\* completes with the text accumulated so far as its response, and what was
\* passed to onChunk comes from the stream up to that frame only: nothing
\* that follows it is delivered; a frame with content and done delivers its
\* content as the last delta.
C27_DoneTerminates ==
  [][ \A t \in TurnIds :
        DoneProcessed(t) =>
           /\ turns'[t].result.response = Flatten(turns'[t].received)
           /\ \E k \in 1..Len(turns[t].sent) :
                /\ IsDone(turns[t].sent[k])
                /\ IsSubseq(turns'[t].received, AllContents(SubSeq(turns[t].sent, 1, k)))
                /\ turns[t].sent[k].kind = "contentdone" =>
                     /\ turns'[t].received # <<>>
                     /\ turns'[t].received[Len(turns'[t].received)] = <<turns[t].sent[k].v>>
    ]_vars

\* C27 witness: a turn completed by a frame with content and done that a
\* content frame followed: the first frame's content is all that was delivered.
C27_Witness ==
  \E t \in TurnIds :
    /\ Completed(t)
    /\ turns[t].sent = <<ContentDoneFrame("a"), ContentFrame("b")>>
    /\ turns[t].received = <<<<"a">>>>
    /\ turns[t].result.response = <<"a">>

IsPrefix(a, b) == Len(a) <= Len(b) /\ SubSeq(b, 1, Len(a)) = a
\* a step of the stream of some turn: no send, regenerate or clear
StreamEvent == nextTurn' = nextTurn /\ page' = page /\ Len(chatMessages') = Len(chatMessages)
\* message m is the assistant message of a turn in flight
OwnMessage(m) == \E t \in TurnIds : Active(t) /\ m.id = AssistantId(t)

\* C28: an event of a turn's stream leaves every user message and every
\* assistant message of another turn as it is, and as long as the turn's own
\* message stays streaming its content is only extended.
C28_OnlyOwnMessage ==
  [][ StreamEvent =>
        \A i \in 1..Len(chatMessages) :
          /\ ~OwnMessage(chatMessages[i]) => chatMessages'[i] = chatMessages[i]
          /\ chatMessages'[i].id = chatMessages[i].id
          /\ chatMessages'[i].type = chatMessages[i].type
          /\ (chatMessages[i].isStreaming /\ chatMessages'[i].isStreaming) =>
                IsPrefix(chatMessages[i].content, chatMessages'[i].content)
    ]_vars

\* C28 witness: the second turn's message is streaming with two deltas while
\* the first turn's answer is in the history, complete.
C28_Witness ==
  /\ Len(chatMessages) = 4
  /\ chatMessages[4].isStreaming /\ Len(chatMessages[4].content) = 2
  /\ chatMessages[4].id = AssistantId(2)
  /\ chatMessages[2].id = AssistantId(1)
  /\ ~chatMessages[2].isStreaming /\ chatMessages[2].content = <<"b">>

\* C29: the in-memory session id is absent or equal to its localStorage
\* mirror, and the two change together: whenever the id getSessionId returns
\* changes, or the mirror changes, both hold the id adopted in that step or
\* both are absent.
C29_MirrorAgrees ==
  /\ (currentSessionId = None \/ currentSessionId = lsSessionId)
  /\ [][ /\ (currentSessionId' = None \/ currentSessionId' = lsSessionId')
         /\ (HeldSid' # HeldSid \/ lsSessionId' # lsSessionId) =>
               currentSessionId' = lsSessionId'
       ]_vars

\* C29 witness: the first session is gone from the server and the client holds
\* the second, in memory and in localStorage.
C29_Witness ==
  /\ currentSessionId = Sid(2) /\ lsSessionId = Sid(2)
  /\ Sid(1) \notin serverSessions /\ Sid(2) \in serverSessions

\* clearAllDocuments returns a failure in this step
ClearFailed == \E c \in clears : ClearResponseError(c) \/ ClearResponseSessionNotFound(c)

\* C30 (as claimed): when clearAllDocuments fails, the session id in memory
\* and in localStorage, the document lists and the chat history are what they
\* were; and a clear-all with no session held sends no request.
C30_FailedClearChangesNothing ==
  [][ /\ ClearFailed =>
           /\ currentSessionId' = currentSessionId /\ lsSessionId' = lsSessionId
           /\ uploadedFiles' = uploadedFiles
           /\ uploadedDocuments' = uploadedDocuments
           /\ chatMessages' = chatMessages
      /\ (ClearAll /\ HeldSid = None) =>
           /\ clears' = clears
           /\ serverSessions' = serverSessions /\ serverDocs' = serverDocs
    ]_vars
====
